---- MODULE Spec2Model ----
(***************************************************************************)
(* A model of stlconverter: the binary STL reader (BinarySTL,              *)
(* BinarySTLTriangle, ByteConversion), the ASCII STL reader (ASCIISTL,     *)
(* ASCIISTLTriangle) and the command line entry point (InputHandler,       *)
(* __main__).                                                              *)
(*                                                                         *)
(* Bytes are naturals 0..255, byte strings are sequences of bytes, text is *)
(* a sequence of one-character strings.  A Python value that a property    *)
(* returns is [tag |-> "ok", val |-> v]; an exception that it raises is    *)
(* [tag |-> "raise", exc |-> name]; a property not read yet is Unset.      *)
(***************************************************************************)
EXTENDS Integers, Sequences, FiniteSets, TLC

VARIABLES
    \* binary reader
    byte_data,      \* BinarySTL.byte_data
    b_pc,           \* which property of the BinarySTL object is read next
    b_header,       \* result of BinarySTL.header
    b_ntriangles,   \* result of BinarySTL.ntriangles
    b_triangles,    \* result of BinarySTL.triangles (the byte_data of each triangle)
    b_decoded,      \* per triangle read so far: its normal, vertices, attribute_byte_count
    \* ASCII reader
    a_doc,          \* what the text was written from (header, indentation, facets)
    in_lines,       \* the lines the text was written from
    ascii_data,     \* ASCIISTL.ascii_data
    lines,          \* ASCIISTL.lines
    a_pc,           \* which step of the ASCII reader is next
    a_header,       \* result of ASCIISTL.header
    a_triangles,    \* result of ASCIISTL.triangles (the lines of each triangle)
    a_ntriangles,   \* result of ASCIISTL.ntriangles
    a_decoded,      \* per triangle read so far: its normal and vertices
    \* command line run
    argv,           \* sys.argv[1:]
    c_pc,           \* the statement of InputHandler / __main__ that runs next
    exit_code,      \* the exit status of the process (meaningful once exited)
    events,         \* what the run printed and which codec calls it made, in order
    stl             \* the STL object of __main__

bvars == <<byte_data, b_pc, b_header, b_ntriangles, b_triangles, b_decoded>>
cvars == <<argv, c_pc, exit_code, events, stl>>
avars == <<a_doc, in_lines, ascii_data, lines, a_pc, a_header, a_triangles,
           a_ntriangles, a_decoded>>

----------------------------------------------------------------------------
(* Bounds of the model. *)

\* Largest number of complete triangle records in a generated binary buffer.
MaxTriangles == 2
\* Largest number of facets in a generated well-formed ASCII text.
MaxFacets == 2
\* Largest indentation unit (spaces per nesting level) of a generated text.
MaxIndent == 2
\* Largest number of lines of a generated free-form ASCII text.
MaxLines == 3
\* Largest number of command line arguments.
MaxArgs == 3

----------------------------------------------------------------------------
(* Python values and built-ins. *)

Unset == [tag |-> "unset"]
Ok(v) == [tag |-> "ok", val |-> v]
Raise(e) == [tag |-> "raise", exc |-> e]

SetMin(S) == CHOOSE x \in S : \A y \in S : x <= y
SetMax(S) == CHOOSE x \in S : \A y \in S : x >= y

\* s[i:j] for 0 <= i, 0 <= j (0-based, end exclusive, clipped to the length).
PySlice(s, i, j) ==
    LET hi == IF j < Len(s) THEN j ELSE Len(s)
    IN  IF i >= hi THEN <<>> ELSE SubSeq(s, i + 1, hi)

\* tuple(range(start, stop, step)) for step > 0.
PyRange(start, stop, step) ==
    LET n == IF stop <= start THEN 0 ELSE ((stop - start) + step - 1) \div step
    IN  [k \in 1..n |-> start + (k - 1) * step]

\* bytes.strip(chars) / str.strip(chars): drops from BOTH ends every leading
\* and trailing element that is a member of chars.
PyStrip(s, chars) ==
    LET keep == {i \in 1..Len(s) : s[i] \notin chars}
    IN  IF keep = {} THEN <<>> ELSE SubSeq(s, SetMin(keep), SetMax(keep))

----------------------------------------------------------------------------
(* ByteConversion *)

\* struct.unpack("<f", byte_quad)[0]: needs exactly 4 bytes; the float is kept
\* as the fields of its little-endian IEEE-754 single precision word.
bytes_to_real32(byte_quad) ==
    IF Len(byte_quad) # 4 THEN Raise("struct.error")
    ELSE Ok([sign     |-> byte_quad[4] \div 128,
             exponent |-> (byte_quad[4] % 128) * 2 + (byte_quad[3] \div 128),
             fraction |-> (byte_quad[3] % 128) * 65536 + byte_quad[2] * 256
                          + byte_quad[1]])

\* tuple(bytes_to_real32(byte_coord[i:i + 4]) for i in range(0, len, 4)):
\* an exception raised for one group is raised by the whole expression.
byte_coord_to_real32(byte_coord) ==
    LET idx == PyRange(0, Len(byte_coord), 4)
        parts == [k \in 1..Len(idx) |->
                    bytes_to_real32(PySlice(byte_coord, idx[k], idx[k] + 4))]
    IN  IF \E k \in 1..Len(idx) : parts[k].tag = "raise"
        THEN Raise("struct.error")
        ELSE Ok([k \in 1..Len(idx) |-> parts[k].val])

\* int.from_bytes(byte_data, "little"): any length, the empty string is 0.
RECURSIVE bytes_to_uint(_)
bytes_to_uint(bytes) ==
    IF bytes = <<>> THEN 0
    ELSE bytes[1] + 256 * bytes_to_uint(Tail(bytes))

----------------------------------------------------------------------------
(* BinarySTLTriangle *)

\* BinarySTLTriangle._STOPS
T_STOPS == [normal |-> 12, vertex1 |-> 24, vertex2 |-> 36, vertex3 |-> 48,
            attribute |-> 50]

BinarySTLTriangle_normal(tri_bytes) ==
    byte_coord_to_real32(PySlice(tri_bytes, 0, T_STOPS.normal))

\* A reader that starts the vertices at the end of vertex1 instead of the
\* end of the normal.
BinarySTLTriangle_vertices_from_vertex1(tri_bytes) ==
    LET step == T_STOPS.vertex2 - T_STOPS.vertex1
        idx == PyRange(T_STOPS.vertex1, T_STOPS.vertex3, step)
        parts == [k \in 1..Len(idx) |->
                    byte_coord_to_real32(PySlice(tri_bytes, idx[k], idx[k] + step))]
    IN  IF \E k \in 1..Len(idx) : parts[k].tag = "raise"
        THEN Raise("struct.error")
        ELSE Ok([k \in 1..Len(idx) |-> parts[k].val])

BinarySTLTriangle_vertices(tri_bytes) ==
    LET step == T_STOPS.vertex2 - T_STOPS.vertex1
        idx == PyRange(T_STOPS.normal, T_STOPS.vertex3, step)
        parts == [k \in 1..Len(idx) |->
                    byte_coord_to_real32(PySlice(tri_bytes, idx[k], idx[k] + step))]
    IN  IF \E k \in 1..Len(idx) : parts[k].tag = "raise"
        THEN Raise("struct.error")
        ELSE Ok([k \in 1..Len(idx) |-> parts[k].val])

BinarySTLTriangle_attribute_byte_count(tri_bytes) ==
    Ok(bytes_to_uint(PySlice(tri_bytes, 48, 50)))

----------------------------------------------------------------------------
(* BinarySTL *)

\* BinarySTL._STOPS
B_STOPS == [header |-> 80, ntriangles |-> 84]

\* bytes.decode("ASCII"): a byte above 127 raises; the text is kept as the
\* sequence of its code points.
DecodeASCII(bytes) ==
    IF \E k \in 1..Len(bytes) : bytes[k] > 127
    THEN Raise("UnicodeDecodeError")
    ELSE Ok(bytes)

BinarySTL_header(data) ==
    DecodeASCII(PyStrip(PySlice(data, 0, B_STOPS.header), {0}))

BinarySTL_ntriangles(data) ==
    Ok(bytes_to_uint(PySlice(data, B_STOPS.header, B_STOPS.ntriangles)))

\* A reader that parses no more triangles than the count field declares.
BinarySTL_triangles_declared_count(data) ==
    LET idx == PyRange(B_STOPS.ntriangles, Len(data), 50)
        declared == bytes_to_uint(PySlice(data, B_STOPS.header, B_STOPS.ntriangles))
        n == IF declared < Len(idx) THEN declared ELSE Len(idx)
    IN  Ok([k \in 1..n |-> PySlice(data, idx[k], idx[k] + 50)])

\* One BinarySTLTriangle(byte_data[i:i + 50]) per i in
\* range(84, len(byte_data), 50); the object is its byte_data.
BinarySTL_triangles(data) ==
    LET idx == PyRange(B_STOPS.ntriangles, Len(data), 50)
    IN  Ok([k \in 1..Len(idx) |-> PySlice(data, idx[k], idx[k] + 50)])

----------------------------------------------------------------------------
(* Binary buffers the reader is given. *)

\* The 80-byte header field: `lead` NUL bytes, text, `trail` NUL bytes.
HeaderKinds == {"text", "inner_nul", "non_ascii"}
HeaderField(lead, trail, kind) ==
    [k \in 1..80 |->
        IF k <= lead \/ k > 80 - trail THEN 0
        ELSE IF kind = "inner_nul" /\ k = 40 THEN 0
        ELSE IF kind = "non_ascii" /\ k = 10 THEN 200
        ELSE 97 + (k % 26)]

\* Values of the declared triangle count (bytes 80..83), little-endian.
CountFields == {<<0, 0, 0, 0>>, <<1, 0, 0, 0>>, <<5, 0, 0, 0>>,
                <<255, 255, 255, 127>>}

\* Triangle payload: every byte differs from its neighbours.
Payload(n) == [k \in 1..n |-> (k * 7 + 3) % 256]

MaxBinaryLen == 84 + 50 * MaxTriangles + 49

BinaryInputs ==
    {PySlice(HeaderField(lead, trail, kind) \o cnt
             \o Payload(MaxBinaryLen - 84), 0, n) :
        lead \in {0, 2}, trail \in {0, 1, 76, 80}, kind \in HeaderKinds,
        cnt \in CountFields, n \in 0..MaxBinaryLen}

----------------------------------------------------------------------------
(* Components that take no part in a run. *)

BIdle ==
    /\ byte_data = <<>>
    /\ b_pc = "idle"
    /\ b_header = Unset
    /\ b_ntriangles = Unset
    /\ b_triangles = Unset
    /\ b_decoded = <<>>

AIdle ==
    /\ a_doc = [wellformed |-> FALSE, header |-> <<>>, indent |-> 0,
                nfacets |-> 0, pat |-> 0]
    /\ in_lines = <<>>
    /\ ascii_data = <<>>
    /\ lines = <<>>
    /\ a_pc = "idle"
    /\ a_header = Unset
    /\ a_triangles = Unset
    /\ a_ntriangles = Unset
    /\ a_decoded = <<>>

CIdle ==
    /\ argv = <<>>
    /\ c_pc = "idle"
    /\ exit_code = 0
    /\ events = <<>>
    /\ stl = [constructed |-> FALSE, is_input_binary |-> FALSE]

----------------------------------------------------------------------------
(* The binary reader: an object is constructed on a buffer and its          *)
(* properties are read, each triangle's properties after `triangles`.      *)

BInit ==
    /\ AIdle
    /\ CIdle
    /\ byte_data \in BinaryInputs
    /\ b_pc = "header"
    /\ b_header = Unset
    /\ b_ntriangles = Unset
    /\ b_triangles = Unset
    /\ b_decoded = <<>>

ReadHeader ==
    /\ b_pc = "header"
    /\ b_header' = BinarySTL_header(byte_data)
    /\ b_pc' = "ntriangles"
    /\ UNCHANGED <<byte_data, b_ntriangles, b_triangles, b_decoded>>
    /\ UNCHANGED <<avars, cvars>>

ReadNtriangles ==
    /\ b_pc = "ntriangles"
    /\ b_ntriangles' = BinarySTL_ntriangles(byte_data)
    /\ b_pc' = "triangles"
    /\ UNCHANGED <<byte_data, b_header, b_triangles, b_decoded>>
    /\ UNCHANGED <<avars, cvars>>

ReadTriangles ==
    /\ b_pc = "triangles"
    /\ b_triangles' = BinarySTL_triangles(byte_data)
    /\ b_pc' = "decode"
    /\ UNCHANGED <<byte_data, b_header, b_ntriangles, b_decoded>>
    /\ UNCHANGED <<avars, cvars>>

\* Read normal, vertices and attribute_byte_count of the next triangle.
DecodeTriangle ==
    /\ b_pc = "decode"
    /\ b_triangles.tag = "ok"
    /\ Len(b_decoded) < Len(b_triangles.val)
    /\ LET t == b_triangles.val[Len(b_decoded) + 1]
       IN  b_decoded' = Append(b_decoded,
                [normal |-> BinarySTLTriangle_normal(t),
                 vertices |-> BinarySTLTriangle_vertices(t),
                 attribute_byte_count |-> BinarySTLTriangle_attribute_byte_count(t)])
    /\ UNCHANGED <<byte_data, b_pc, b_header, b_ntriangles, b_triangles>>
    /\ UNCHANGED <<avars, cvars>>

BNext == ReadHeader \/ ReadNtriangles \/ ReadTriangles \/ DecodeTriangle

SpecBinary == BInit /\ [][BNext]_bvars

----------------------------------------------------------------------------
(* Properties of the binary reader. *)

\* The buffer holds the 84-byte prologue and n complete 50-byte records.
WellSized(data) == Len(data) >= 84 /\ (Len(data) - 84) % 50 = 0

\* C1: a buffer of exactly 84 + 50*n bytes yields exactly n triangles, the
\* i-th built from bytes [84+50*i, 84+50*i+50), without error, whatever value
\* the count field at bytes 80..83 holds.
C1_TrianglesFromLength ==
    (b_triangles # Unset /\ WellSized(byte_data)) =>
        LET n == (Len(byte_data) - 84) \div 50
        IN  /\ b_triangles.tag = "ok"
            /\ Len(b_triangles.val) = n
            /\ \A i \in 0..(n - 1) :
                   b_triangles.val[i + 1] = [j \in 1..50 |-> byte_data[84 + 50 * i + j]]

\* Two triangles were parsed from a 184-byte buffer whose count field
\* declares 2147483647 of them.
C1_Witness ==
    /\ Len(byte_data) = 84 + 50 * 2
    /\ b_ntriangles = Ok(2147483647)
    /\ b_triangles.tag = "ok"
    /\ Len(b_triangles.val) = 2

IsMalformedInput(r) == r.tag = "raise" /\ r.exc = "MalformedInput"

\* C2: for a buffer shorter than 84 bytes or not of length 84 + 50*n the
\* reader returns neither a header nor a triangle sequence: each read fails
\* with MalformedInput.
C2_MalformedLengthFails ==
    ~WellSized(byte_data) =>
        /\ (b_header = Unset \/ IsMalformedInput(b_header))
        /\ (b_triangles = Unset \/ IsMalformedInput(b_triangles))

\* The first 80 bytes with the NUL bytes at the end removed, and nothing else.
TrailingNulTrimmed(data) ==
    LET h == SubSeq(data, 1, 80)
        last == IF \A k \in 1..80 : h[k] = 0 THEN 0
                ELSE SetMax({k \in 1..80 : h[k] # 0})
    IN  SubSeq(h, 1, last)

\* C6: for a buffer of at least 80 bytes whose first 80 bytes are ASCII, the
\* header is the first 80 bytes with only the trailing NUL bytes removed;
\* leading NUL bytes and every non-NUL byte are kept.
C6_HeaderTrailingNulOnly ==
    (b_header # Unset /\ Len(byte_data) >= 80
        /\ \A k \in 1..80 : byte_data[k] <= 127) =>
        b_header = Ok(TrailingNulTrimmed(byte_data))

\* The IEEE-754 fields of the little-endian 4-byte group at 0-based offset o.
Real32At(o) ==
    [sign     |-> byte_data[o + 4] \div 128,
     exponent |-> 2 * (byte_data[o + 4] % 128) + (byte_data[o + 3] \div 128),
     fraction |-> 65536 * (byte_data[o + 3] % 128) + 256 * byte_data[o + 2]
                  + byte_data[o + 1]]
Vec3At(o) == <<Real32At(o), Real32At(o + 4), Real32At(o + 8)>>

\* C7: a complete 50-byte record at offset base = 84 + 50*i decodes to
\* normal = bytes [0,12), vertices = the three vectors of bytes [12,24),
\* [24,36), [36,48) in that order, attribute_byte_count = the little-endian
\* unsigned 16-bit value of bytes [48,50), in 0..65535.
C7_RecordLayout ==
    \A k \in 1..Len(b_decoded) :
        Len(b_triangles.val[k]) = 50 =>
            LET base == 84 + 50 * (k - 1)
                d == b_decoded[k]
            IN  /\ d.normal = Ok(Vec3At(base))
                /\ d.vertices = Ok(<<Vec3At(base + 12), Vec3At(base + 24),
                                     Vec3At(base + 36)>>)
                /\ d.attribute_byte_count =
                       Ok(byte_data[base + 49] + 256 * byte_data[base + 50])
                /\ d.attribute_byte_count.val \in 0..65535

\* The second complete record of a buffer was decoded, and its attribute
\* uses both of its bytes.
C7_Witness ==
    /\ Len(b_decoded) >= 2
    /\ Len(b_triangles.val[2]) = 50
    /\ b_decoded[2].vertices.tag = "ok"
    /\ Len(b_decoded[2].vertices.val) = 3
    /\ b_decoded[2].attribute_byte_count.val > 255

----------------------------------------------------------------------------
(* Python text built-ins. *)

\* The whitespace characters of the generated texts (str.strip(), str.split()).
WS == {" ", "\t", "\n", "\r", "\f"}

\* str.split(sep) for a one-character sep: always at least one piece.
RECURSIVE PySplit(_, _)
PySplit(s, sep) ==
    IF \A i \in 1..Len(s) : s[i] # sep THEN <<s>>
    ELSE LET i == SetMin({j \in 1..Len(s) : s[j] = sep})
         IN  <<SubSeq(s, 1, i - 1)>> \o PySplit(SubSeq(s, i + 1, Len(s)), sep)

\* str.split(): the maximal runs of non-whitespace characters.
RECURSIVE PySplitWS(_)
PySplitWS(s) ==
    LET nonws == {j \in 1..Len(s) : s[j] \notin WS}
    IN  IF nonws = {} THEN <<>>
        ELSE LET b == SetMin(nonws)
                 after == {j \in b..Len(s) : s[j] \in WS}
                 e == IF after = {} THEN Len(s) + 1 ELSE SetMin(after)
             IN  <<SubSeq(s, b, e - 1)>> \o PySplitWS(SubSeq(s, e, Len(s)))

\* str.startswith(prefix)
PyStartsWith(s, prefix) ==
    Len(s) >= Len(prefix) /\ SubSeq(s, 1, Len(prefix)) = prefix

DigitChars == <<"0", "1", "2", "3", "4", "5", "6", "7", "8", "9">>
IsDigit(c) == \E d \in 1..10 : DigitChars[d] = c
DigitVal(c) == (CHOOSE d \in 1..10 : DigitChars[d] = c) - 1

RECURSIVE DecimalVal(_)
DecimalVal(ds) ==
    IF ds = <<>> THEN 0
    ELSE 10 * DecimalVal(SubSeq(ds, 1, Len(ds) - 1)) + DigitVal(ds[Len(ds)])

\* float(val) on the tokens of the generated texts: decimal integer numerals
\* with an optional sign are converted to their value, every other token
\* of these texts (a word, the empty string) raises ValueError.
PyFloat(tok) ==
    LET signed == Len(tok) > 0 /\ tok[1] \in {"+", "-"}
        ds == IF signed THEN Tail(tok) ELSE tok
    IN  IF Len(ds) > 0 /\ \A k \in 1..Len(ds) : IsDigit(ds[k])
        THEN Ok(IF signed /\ tok[1] = "-" THEN 0 - DecimalVal(ds) ELSE DecimalVal(ds))
        ELSE Raise("ValueError")

\* tuple(float(val) for val in toks): the first failure is raised.
FloatTuple(toks) ==
    LET parts == [k \in 1..Len(toks) |-> PyFloat(toks[k])]
    IN  IF \E k \in 1..Len(toks) : parts[k].tag = "raise"
        THEN Raise("ValueError")
        ELSE Ok([k \in 1..Len(toks) |-> parts[k].val])

----------------------------------------------------------------------------
(* ASCIISTLTriangle *)

KW_facet_normal == <<"f", "a", "c", "e", "t", " ", "n", "o", "r", "m", "a", "l">>
KW_vertex == <<"v", "e", "r", "t", "e", "x">>
KW_solid == <<"s", "o", "l", "i", "d">>

CharsOf(s) == {s[k] : k \in 1..Len(s)}

\* self.lines[1].strip("facet normal").strip().split(), each token to float;
\* self.lines[1] of a tuple with fewer than two lines raises IndexError.
ASCIISTLTriangle_normal(tlines) ==
    IF Len(tlines) < 2 THEN Raise("IndexError")
    ELSE FloatTuple(PySplitWS(PyStrip(PyStrip(tlines[2], CharsOf(KW_facet_normal)), WS)))

\* For each line of self.lines[2:5]: line.strip("vertex").strip().split(),
\* each token to float.
ASCIISTLTriangle_vertices(tlines) ==
    LET vl == PySlice(tlines, 2, 5)
        parts == [k \in 1..Len(vl) |->
                    FloatTuple(PySplitWS(PyStrip(PyStrip(vl[k], CharsOf(KW_vertex)), WS)))]
    IN  IF \E k \in 1..Len(vl) : parts[k].tag = "raise"
        THEN Raise("ValueError")
        ELSE Ok([k \in 1..Len(vl) |-> parts[k].val])

----------------------------------------------------------------------------
(* ASCIISTL *)

\* __init__: self.lines = ascii_data.split("\n")
ASCIISTL_lines(data) == PySplit(data, "\n")

\* self.lines[0].strip("solid").strip()
ASCIISTL_header(ls) == Ok(PyStrip(PyStrip(ls[1], CharsOf(KW_solid)), WS))

\* A reader that tests the line as it stands, indentation included.
RECURSIVE ASCIISTL_triangles_from_unstripped(_, _)
ASCIISTL_triangles_from_unstripped(ls, i) ==
    IF i >= Len(ls) THEN <<>>
    ELSE (IF PyStartsWith(ls[i + 1], KW_facet_normal)
          THEN <<PySlice(ls, i, i + 5)>> ELSE <<>>)
         \o ASCIISTL_triangles_from_unstripped(ls, i + 1)

\* The loop of ASCIISTL.triangles from index i (0-based) on: a line whose
\* strip() starts with "facet normal" appends ASCIISTLTriangle(lines[i:i + 5]).
RECURSIVE ASCIISTL_triangles_from(_, _)
ASCIISTL_triangles_from(ls, i) ==
    IF i >= Len(ls) THEN <<>>
    ELSE (IF PyStartsWith(PyStrip(ls[i + 1], WS), KW_facet_normal)
          THEN <<PySlice(ls, i, i + 5)>> ELSE <<>>)
         \o ASCIISTL_triangles_from(ls, i + 1)

ASCIISTL_triangles(ls) == Ok(ASCIISTL_triangles_from(ls, 0))

\* len(self.triangles)
ASCIISTL_ntriangles(ls) == Ok(Len(ASCIISTL_triangles(ls).val))

----------------------------------------------------------------------------
(* ASCII texts the reader is given. *)

RECURSIVE Numeral(_)
Numeral(n) ==
    IF n < 0 THEN <<"-">> \o Numeral(0 - n)
    ELSE IF n < 10 THEN <<DigitChars[n + 1]>>
    ELSE Numeral(n \div 10) \o <<DigitChars[(n % 10) + 1]>>

Spaces(n) == [k \in 1..n |-> " "]

\* The c-th coordinate of vector v (0 = normal, 1..3 = vertices) of facet f.
Coord(pat, f, v, c) == ((pat + 7 * f + 3 * v + c) % 20) - 5
Vec(pat, f, v) == <<Coord(pat, f, v, 1), Coord(pat, f, v, 2), Coord(pat, f, v, 3)>>
VecText(pat, f, v) ==
    Numeral(Coord(pat, f, v, 1)) \o <<" ">> \o Numeral(Coord(pat, f, v, 2))
    \o <<" ">> \o Numeral(Coord(pat, f, v, 3))

\* The seven lines of facet f, indented `indent` spaces per nesting level.
FacetLines(indent, pat, f) ==
    << Spaces(indent) \o KW_facet_normal \o <<" ">> \o VecText(pat, f, 0),
       Spaces(2 * indent) \o <<"o", "u", "t", "e", "r", " ", "l", "o", "o", "p">>,
       Spaces(3 * indent) \o KW_vertex \o <<" ">> \o VecText(pat, f, 1),
       Spaces(3 * indent) \o KW_vertex \o <<" ">> \o VecText(pat, f, 2),
       Spaces(3 * indent) \o KW_vertex \o <<" ">> \o VecText(pat, f, 3),
       Spaces(2 * indent) \o <<"e", "n", "d", "l", "o", "o", "p">>,
       Spaces(indent) \o <<"e", "n", "d", "f", "a", "c", "e", "t">> >>

RECURSIVE FacetsLines(_, _, _)
FacetsLines(indent, pat, nf) ==
    IF nf = 0 THEN <<>>
    ELSE FacetsLines(indent, pat, nf - 1) \o FacetLines(indent, pat, nf)

\* A well-formed text: solid <h>, the facets, endsolid <h>, a final newline.
DocLines(h, indent, pat, nf) ==
    << KW_solid \o <<" ">> \o h >>
    \o FacetsLines(indent, pat, nf)
    \o << <<"e", "n", "d">> \o KW_solid \o <<" ">> \o h, <<>> >>

Headers == { <<"d", "e", "m", "o">>, <<"c", "u", "b", "e">>,
             <<"p", "a", "r", "t">>, <<"l", "i", "d">>,
             <<"m", "y", " ", "s", "o", "l", "i", "d">> }

Patterns == {0, 11}

\* Lines of the free-form texts.
LinePool ==
    { KW_facet_normal \o <<" ", "0", " ", "0", " ", "1">>,
      <<" ", " ">> \o KW_facet_normal \o <<" ", "1", " ", "0", " ", "0">>,
      <<"\t">> \o KW_facet_normal \o <<" ", "0", " ", "1", " ", "0", "\r">>,
      <<"f", "a", "c", "e", "t">>,
      <<"x">> \o KW_facet_normal,
      <<"o", "u", "t", "e", "r", " ", "l", "o", "o", "p">>,
      KW_vertex \o <<" ", "1", " ", "2", " ", "3">>,
      <<"e", "n", "d", "l", "o", "o", "p">>,
      <<"e", "n", "d", "f", "a", "c", "e", "t">>,
      <<"e", "n", "d">> \o KW_solid \o <<" ", "x">>,
      <<>> }

RECURSIVE SeqsUpTo(_, _)
SeqsUpTo(S, n) ==
    IF n = 0 THEN {<<>>}
    ELSE LET shorter == SeqsUpTo(S, n - 1)
         IN  shorter \cup {Append(q, x) : q \in shorter, x \in S}

\* "\n".join(ls)
RECURSIVE Join(_)
Join(ls) ==
    IF Len(ls) = 0 THEN <<>>
    ELSE IF Len(ls) = 1 THEN ls[1]
    ELSE ls[1] \o <<"\n">> \o Join(Tail(ls))

----------------------------------------------------------------------------
(* The ASCII reader: an ASCIISTL is constructed on a text and its          *)
(* properties are read, each triangle's properties after `triangles`.      *)

AInit ==
    /\ BIdle
    /\ CIdle
    /\ \/ \E h \in Headers, indent \in 0..MaxIndent, pat \in Patterns,
             nf \in 0..MaxFacets :
             /\ a_doc = [wellformed |-> TRUE, header |-> h, indent |-> indent,
                         nfacets |-> nf, pat |-> pat]
             /\ in_lines = DocLines(h, indent, pat, nf)
       \/ /\ a_doc = [wellformed |-> FALSE, header |-> <<>>, indent |-> 0,
                      nfacets |-> 0, pat |-> 0]
          /\ in_lines \in (SeqsUpTo(LinePool, MaxLines) \ {<<>>})
    /\ ascii_data = Join(in_lines)
    /\ lines = <<>>
    /\ a_pc = "init"
    /\ a_header = Unset
    /\ a_triangles = Unset
    /\ a_ntriangles = Unset
    /\ a_decoded = <<>>

Construct ==
    /\ a_pc = "init"
    /\ lines' = ASCIISTL_lines(ascii_data)
    /\ a_pc' = "header"
    /\ UNCHANGED <<a_doc, in_lines, ascii_data, a_header, a_triangles,
                   a_ntriangles, a_decoded>>
    /\ UNCHANGED <<bvars, cvars>>

ReadAsciiHeader ==
    /\ a_pc = "header"
    /\ a_header' = ASCIISTL_header(lines)
    /\ a_pc' = "triangles"
    /\ UNCHANGED <<a_doc, in_lines, ascii_data, lines, a_triangles,
                   a_ntriangles, a_decoded>>
    /\ UNCHANGED <<bvars, cvars>>

ReadAsciiTriangles ==
    /\ a_pc = "triangles"
    /\ a_triangles' = ASCIISTL_triangles(lines)
    /\ a_pc' = "ntriangles"
    /\ UNCHANGED <<a_doc, in_lines, ascii_data, lines, a_header,
                   a_ntriangles, a_decoded>>
    /\ UNCHANGED <<bvars, cvars>>

ReadAsciiNtriangles ==
    /\ a_pc = "ntriangles"
    /\ a_ntriangles' = ASCIISTL_ntriangles(lines)
    /\ a_pc' = "decode"
    /\ UNCHANGED <<a_doc, in_lines, ascii_data, lines, a_header,
                   a_triangles, a_decoded>>
    /\ UNCHANGED <<bvars, cvars>>

\* Read normal and vertices of the next triangle.
DecodeAsciiTriangle ==
    /\ a_pc = "decode"
    /\ Len(a_decoded) < Len(a_triangles.val)
    /\ LET t == a_triangles.val[Len(a_decoded) + 1]
       IN  a_decoded' = Append(a_decoded,
                [normal |-> ASCIISTLTriangle_normal(t),
                 vertices |-> ASCIISTLTriangle_vertices(t)])
    /\ UNCHANGED <<a_doc, in_lines, ascii_data, lines, a_pc, a_header,
                   a_triangles, a_ntriangles>>
    /\ UNCHANGED <<bvars, cvars>>

ANext ==
    \/ Construct
    \/ ReadAsciiHeader
    \/ ReadAsciiTriangles
    \/ ReadAsciiNtriangles
    \/ DecodeAsciiTriangle

SpecAscii == AInit /\ [][ANext]_avars

----------------------------------------------------------------------------
(* Properties of the ASCII reader. *)

\* C3: reading text whose first line is `solid h` gives the header h exactly;
\* only the keyword is removed, no character of h is dropped.
C3_HeaderIntact ==
    (a_doc.wellformed /\ a_header # Unset) => a_header = Ok(a_doc.header)

\* C4: the normal of every triangle record of well-formed text is the triple
\* of numbers on the record's own `facet normal` line, read without error.
C4_NormalFromFacetLine ==
    a_doc.wellformed =>
        \A k \in 1..Len(a_decoded) :
            a_decoded[k].normal = Ok(Vec(a_doc.pat, k, 0))

\* C5: the vertices of every triangle record of well-formed text are the
\* three triples of its three `vertex` lines in file order, whatever the
\* indentation of those lines, read without error.
C5_VerticesAnyIndent ==
    a_doc.wellformed =>
        \A k \in 1..Len(a_decoded) :
            a_decoded[k].vertices =
                Ok(<<Vec(a_doc.pat, k, 1), Vec(a_doc.pat, k, 2), Vec(a_doc.pat, k, 3)>>)

\* The line is whitespace followed by the literal `facet normal`.
IsFacetLine(l) ==
    \E p \in 0..Len(l) :
        /\ \A j \in 1..p : l[j] \in WS
        /\ Len(l) >= p + 12
        /\ SubSeq(l, p + 1, p + 12) = KW_facet_normal

FacetIdx == {i \in 1..Len(in_lines) : IsFacetLine(in_lines[i])}
KthFacet(k) == CHOOSE i \in FacetIdx : Cardinality({j \in FacetIdx : j <= i}) = k

\* C9: triangles has exactly one triangle per line whose trimmed content
\* starts with `facet normal`, in the order of those lines, the k-th holding
\* the (up to) 5 consecutive lines from the k-th such line on; ntriangles is
\* the number of those lines; no line raises an error.
C9_OneTrianglePerFacetLine ==
    /\ a_triangles # Unset =>
          /\ a_triangles.tag = "ok"
          /\ Len(a_triangles.val) = Cardinality(FacetIdx)
          /\ \A k \in 1..Cardinality(FacetIdx) :
                LET i == KthFacet(k)
                    last == IF i + 4 < Len(in_lines) THEN i + 4 ELSE Len(in_lines)
                IN  a_triangles.val[k] = [j \in 1..(last - i + 1) |-> in_lines[i + j - 1]]
    /\ a_ntriangles # Unset => a_ntriangles = Ok(Cardinality(FacetIdx))

\* A text with two indented facets and endloop, endfacet, endsolid lines was
\* read: two triangles, ntriangles = 2.
C9_Witness ==
    /\ a_doc.wellformed
    /\ a_doc.indent > 0
    /\ a_doc.nfacets = 2
    /\ a_triangles.tag = "ok"
    /\ Len(a_triangles.val) = 2
    /\ a_ntriangles = Ok(2)

----------------------------------------------------------------------------
(* InputHandler and __main__: the command line run. *)

LowerLetters == <<"a", "b", "c", "d", "e", "f", "g", "h", "i", "j", "k", "l", "m",
                  "n", "o", "p", "q", "r", "s", "t", "u", "v", "w", "x", "y", "z">>
UpperLetters == <<"A", "B", "C", "D", "E", "F", "G", "H", "I", "J", "K", "L", "M",
                  "N", "O", "P", "Q", "R", "S", "T", "U", "V", "W", "X", "Y", "Z">>

\* str.upper() and str.lower(): letters are mapped, other characters kept.
PyUpper(s) ==
    [k \in 1..Len(s) |->
        IF \E n \in 1..26 : LowerLetters[n] = s[k]
        THEN UpperLetters[CHOOSE n \in 1..26 : LowerLetters[n] = s[k]]
        ELSE s[k]]
PyLower(s) ==
    [k \in 1..Len(s) |->
        IF \E n \in 1..26 : UpperLetters[n] = s[k]
        THEN LowerLetters[CHOOSE n \in 1..26 : UpperLetters[n] = s[k]]
        ELSE s[k]]

\* str.endswith(suffix)
PyEndsWith(s, suffix) ==
    Len(s) >= Len(suffix)
    /\ SubSeq(s, Len(s) - Len(suffix) + 1, Len(s)) = suffix

STLB == <<"S", "T", "L", "B">>
STLA == <<"S", "T", "L", "A">>
DotStl == <<".", "s", "t", "l">>

\* The file system: os.path.isfile is true of these paths only.
ExistingFiles == { <<"a", ".", "s", "t", "l">>, <<"B", ".", "S", "T", "L">>,
                   <<"c", ".", "t", "x", "t">> }

\* The words a command line is made of: paths and output mode tokens.
Tokens == ExistingFiles
          \cup { <<"n", "o", ".", "s", "t", "l">> }
          \cup { STLB, STLA, <<"s", "t", "l", "b">>, <<"S", "t", "l", "A">>,
                 <<"S", "T", "L", "C">>, <<>> }

\* InputHandler.is_binary, InputHandler.is_ascii
is_binary == PyUpper(argv[2]) = STLB
is_ascii == PyUpper(argv[2]) = STLA

CInit ==
    /\ BIdle
    /\ AIdle
    /\ argv \in SeqsUpTo(Tokens, MaxArgs)
    /\ c_pc = "argc"
    /\ exit_code = 0
    /\ events = <<>>
    /\ stl = [constructed |-> FALSE, is_input_binary |-> FALSE]

\* print(message); exit(1): SystemExit is raised outside the try statement of
\* __main__, so the process ends with status 1.
ExitWith(message) ==
    /\ events' = Append(events, message)
    /\ exit_code' = 1
    /\ c_pc' = "exited"

\* InputHandler.arguments setter, argument count.
CheckArgCount ==
    /\ c_pc = "argc"
    /\ IF Len(argv) # 2
       THEN ExitWith("print_usage")
       ELSE /\ c_pc' = "isfile"
            /\ UNCHANGED <<exit_code, events>>
    /\ UNCHANGED <<argv, stl, avars, bvars>>

\* InputHandler.arguments setter, input file existence.
CheckIsFile ==
    /\ c_pc = "isfile"
    /\ IF argv[1] \notin ExistingFiles
       THEN ExitWith("print_error_not_exist")
       ELSE /\ c_pc' = "ext"
            /\ UNCHANGED <<exit_code, events>>
    /\ UNCHANGED <<argv, stl, avars, bvars>>

\* InputHandler.arguments setter, input file extension.
CheckExtension ==
    /\ c_pc = "ext"
    /\ IF ~PyEndsWith(PyLower(argv[1]), DotStl)
       THEN ExitWith("print_error_not_stl")
       ELSE /\ c_pc' = "mode"
            /\ UNCHANGED <<exit_code, events>>
    /\ UNCHANGED <<argv, stl, avars, bvars>>

\* An output mode check that reports the bad mode and goes on.
CheckMode_no_exit ==
    /\ c_pc = "mode"
    /\ IF PyUpper(argv[2]) \notin {STLB, STLA}
       THEN events' = Append(events, "print_error_mode")
       ELSE UNCHANGED events
    /\ c_pc' = "stl"
    /\ UNCHANGED <<exit_code, argv, stl, avars, bvars>>

\* InputHandler.arguments setter, output mode; then self._arguments is set.
CheckMode ==
    /\ c_pc = "mode"
    /\ IF PyUpper(argv[2]) \notin {STLB, STLA}
       THEN ExitWith("print_error_mode")
       ELSE /\ c_pc' = "stl"
            /\ UNCHANGED <<exit_code, events>>
    /\ UNCHANGED <<argv, stl, avars, bvars>>

\* stl = STL(handler.input_path): returns an object that detected a binary
\* or an ASCII input, or raises.
ConstructSTL ==
    /\ c_pc = "stl"
    /\ \/ \E bin \in BOOLEAN :
            /\ stl' = [constructed |-> TRUE, is_input_binary |-> bin]
            /\ events' = Append(events, "STL")
            /\ c_pc' = "log"
       \/ /\ events' = events \o <<"STL", "raise">>
          /\ c_pc' = "except"
          /\ UNCHANGED stl
    /\ UNCHANGED <<argv, exit_code, avars, bvars>>

\* in_mode, out_mode, out_name and the "[Log] Converting" line.
LogConverting ==
    /\ c_pc = "log"
    /\ events' = Append(events, "print_converting")
    /\ c_pc' = "warn"
    /\ UNCHANGED <<argv, exit_code, stl, avars, bvars>>

\* same_format_warn(handler, stl)
SameFormatWarn ==
    /\ c_pc = "warn"
    /\ events' = IF is_binary /\ stl.is_input_binary
                 THEN Append(events, "print_warning_binary")
                 ELSE IF is_ascii /\ ~stl.is_input_binary
                 THEN Append(events, "print_warning_ascii")
                 ELSE events
    /\ c_pc' = "save"
    /\ UNCHANGED <<argv, exit_code, stl, avars, bvars>>

SaveCall == IF is_binary THEN "save_stlb" ELSE "save_stla"

\* stl.save_stlb(out_name) or stl.save_stla(out_name): returns or raises.
Save ==
    /\ c_pc = "save"
    /\ \/ /\ events' = events \o <<SaveCall, "save_done">>
          /\ c_pc' = "else"
       \/ /\ events' = events \o <<SaveCall, "raise">>
          /\ c_pc' = "except"
    /\ UNCHANGED <<argv, exit_code, stl, avars, bvars>>

\* An exception handler that reports the error and saves again.
Except_retry ==
    /\ c_pc = "except"
    /\ events' = Append(events, "print_error_unknown")
    /\ c_pc' = IF stl.constructed THEN "save" ELSE "exited"
    /\ UNCHANGED <<argv, exit_code, stl, avars, bvars>>

\* except Exception: the error is printed; the module ends.
Except ==
    /\ c_pc = "except"
    /\ events' = Append(events, "print_error_unknown")
    /\ c_pc' = "exited"
    /\ UNCHANGED <<argv, exit_code, stl, avars, bvars>>

\* else: the success message is printed; the module ends.
Else ==
    /\ c_pc = "else"
    /\ events' = Append(events, "print_success")
    /\ c_pc' = "exited"
    /\ UNCHANGED <<argv, exit_code, stl, avars, bvars>>

CNext ==
    \/ CheckArgCount
    \/ CheckIsFile
    \/ CheckExtension
    \/ CheckMode
    \/ ConstructSTL
    \/ LogConverting
    \/ SameFormatWarn
    \/ Save
    \/ Except
    \/ Else

SpecCli == CInit /\ [][CNext]_cvars

----------------------------------------------------------------------------
(* Properties of the command line run. *)

Count(e) == Cardinality({k \in 1..Len(events) : events[k] = e})
Occurs(e) == Count(e) > 0
Pos(e) == SetMin({k \in 1..Len(events) : events[k] = e})
CodecCalls == {"STL", "save_stlb", "save_stla"}
CodecInvoked == \E k \in 1..Len(events) : events[k] \in CodecCalls
Reports == {"print_usage", "print_error_not_exist", "print_error_not_stl",
            "print_error_mode"}

\* What the claim calls a bad command line.
BadArguments ==
    \/ Len(argv) # 2
    \/ argv[1] \notin ExistingFiles
    \/ PyUpper(argv[2]) \notin {STLB, STLA}

\* C8: with other than two arguments, a missing input file or a mode that is
\* not STLB/STLA in any case, the run reports the problem and ends with a
\* non-zero status, the codec never invoked; the codec is invoked only after
\* all argument checks have passed.
C8_ChecksBeforeCodec ==
    /\ BadArguments =>
          /\ ~CodecInvoked
          /\ c_pc \in {"argc", "isfile", "ext", "mode", "exited"}
          /\ c_pc = "exited" =>
                /\ exit_code # 0
                /\ \E k \in 1..Len(events) : events[k] \in Reports
    /\ CodecInvoked =>
          /\ ~BadArguments
          /\ c_pc \notin {"argc", "isfile", "ext", "mode"}
          /\ \A k \in 1..Len(events) : events[k] \notin Reports

\* Two arguments, an existing .stl file and the mode `STLC`: the bad mode was
\* reported and the run ended with status 1.
C8_Witness ==
    /\ Len(argv) = 2
    /\ argv[1] \in ExistingFiles
    /\ argv[2] = <<"S", "T", "L", "C">>
    /\ c_pc = "exited"
    /\ exit_code = 1
    /\ events = <<"print_error_mode">>

Validated == c_pc \notin {"argc", "isfile", "ext", "mode"} /\ exit_code = 0

\* C10: after validation at most one save is attempted, save_stlb for mode
\* STLB and save_stla for mode STLA; an error of the read or of the save is
\* reported once, with no save after it and no success message; the success
\* message is printed only after the selected save completed without error.
C10_OneSaveNoRetry ==
    Validated =>
        /\ Count("save_stlb") + Count("save_stla") <= 1
        /\ Count("STL") <= 1
        /\ Occurs("save_stlb") => PyUpper(argv[2]) = STLB
        /\ Occurs("save_stla") => PyUpper(argv[2]) = STLA
        /\ Count("raise") <= 1
        /\ Count("print_error_unknown") <= Count("raise")
        /\ Occurs("raise") =>
              /\ ~Occurs("print_success")
              /\ \A k \in 1..Len(events) :
                    events[k] \in {"save_stlb", "save_stla"} => k < Pos("raise")
              /\ c_pc = "exited" => Count("print_error_unknown") = 1
        /\ Count("print_success") <= 1
        /\ Occurs("print_success") =>
              /\ Occurs("save_done")
              /\ Pos("save_done") < Pos("print_success")
              /\ events[Pos("save_done") - 1] = SaveCall

\* A run in mode stlb whose save raised: the error was reported and the run
\* ended with one save attempt.
C10_Witness ==
    /\ c_pc = "exited"
    /\ Len(argv) = 2
    /\ argv[2] = <<"s", "t", "l", "b">>
    /\ events = <<"STL", "print_converting", "save_stlb", "raise",
                  "print_error_unknown">>

====
